---- MODULE Spec2Model ----
(***************************************************************************)
(* MCP server runtime and gateway of the archestra platform backend:       *)
(* the install handler, its detached tool-discovery task, uninstall,       *)
(* restart, the stdio proxy endpoint and the log endpoint                  *)
(* (routes/mcp-server.ts), over the server record store                    *)
(* (models/mcp-server.ts) and the pod runtime.                             *)
(*                                                                         *)
(* Every await of a handler is an interleaving point: one action per       *)
(* stretch of code between two awaits.  Awaits on data no other handler    *)
(* writes (the catalog, the handler's own secret) are folded into the      *)
(* neighbouring step.                                                      *)
(*                                                                         *)
(* The database is available: a row update or delete by id succeeds (and   *)
(* is a no-op when the row is gone).  The inserts of caller data           *)
(* (McpServerModel.create, ToolModel.create, AgentToolModel.create) can    *)
(* be rejected, and are so nondeterministically.  Requests leave           *)
(* localInstallationStatus out of the body, so a record starts with the    *)
(* column default, idle.                                                   *)
(***************************************************************************)
EXTENDS Integers, Sequences, FiniteSets, TLC

\* ---------------------------------------------------------------- bounds
MaxInstalls == 1      \* install requests (each creates at most one record)
MaxRestarts == 2      \* restart requests
MaxProxies == 1       \* proxy requests
MaxTools == 2         \* longest tool listing a server reports
MaxLogs == 1          \* log requests
MaxConcurrentInstalls == 2   \* install requests of the concurrent-install scenario

MaxUsers == 2    \* users calling the access checks
MaxTeams == 2    \* teams
MaxAgents == 2   \* agents
Installs == 1..MaxInstalls
AllInstalls == 1..MaxConcurrentInstalls
\* McpServerModel.create returns a fresh uuid: the record created by install
\* request i is record i, so ids are never reused.  An id whose request never
\* arrives is an id no record has.
Ids == AllInstalls
Restarts == 1..MaxRestarts
Proxies == 1..MaxProxies
LogRequests == 1..MaxLogs

\* ------------------------------------------------------------ catalog
NoCatalog == "none"
Catalogs == {"catLocal", "catRemote"}
ServerType(c) == IF c = "catLocal" THEN "local" ELSE IF c = "catRemote" THEN "remote" ELSE "null"

NoError == "null"
Statuses == {"idle", "pending", "success", "error"}
\* secret ids: the secret a caller passes as secretId exists before the
\* request; SecretModel.create for install request i returns a fresh id
CallerSecret == <<"caller", 0>>
CreatedSecret(i) == <<"created", i>>

Users == 1..MaxUsers
Teams == 1..MaxTeams
Agents == 1..MaxAgents

VARIABLES
    servers,     \* mcpServersTable: id -> record
    secrets,     \* secret store: set of secret ids
    tools,       \* tools table: set of rows [server, name, copy]
    agentTools,  \* agent-tool assignments: set of rows [agent, tool, copy]
    pods,        \* pod registry: id -> number of registered PodHandles
    locks,       \* per-id lifecycle locks held
    inst,        \* install requests: handler position and locals
    disc,        \* detached discovery tasks, one per install request
    rst,         \* restart requests
    prx,         \* proxy requests
    lgs,         \* log requests
    agentsTable,     \* agents table: set of agent ids
    teamMember,      \* team membership rows [userId, teamId]
    agentTeamTable,  \* agent-team assignment rows [agentId, teamId]
    access           \* the last access check and what it returned

vars == <<servers, secrets, tools, agentTools, pods, locks, inst, disc, rst, prx, lgs,
          agentsTable, teamMember, agentTeamTable, access>>

accessVars == <<agentsTable, teamMember, agentTeamTable, access>>

serverVars == <<servers, secrets, tools, agentTools, pods, locks, inst, disc, rst, prx,
                lgs>>

NoServer == [exists |-> FALSE, catalogId |-> NoCatalog, status |-> "idle",
             error |-> NoError]
NoResp == [code |-> 0, type |-> "none", status |-> "none"]
IdleInst == [pc |-> "idle", catalogId |-> NoCatalog, createdSecretId |-> {},
             fetched |-> <<>>, thrown |-> "none", resp |-> NoResp]
IdleDisc == [pc |-> "none", agentIds |-> <<>>, listing |-> <<>>, k |-> 0,
             error |-> NoError]
IdleRst == [pc |-> "idle", id |-> 1, local |-> FALSE, raced |-> FALSE,
            cause |-> "none", message |-> <<>>, resp |-> NoResp]
IdlePrx == [pc |-> "idle", id |-> 1, found |-> FALSE, catalogId |-> NoCatalog,
            k8sPod |-> FALSE, headersSent |-> FALSE, stream |-> "none",
            ended |-> FALSE, resp |-> NoResp]
IdleLgs == [pc |-> "idle", id |-> 1, outcome |-> "none", resp |-> NoResp]

NoIds == [a \in {} |-> 0]

IdleAccess == [op |-> "none", userId |-> 0, isAdmin |-> FALSE, agentId |-> 0,
               ids |-> NoIds, has |-> FALSE]

Init ==
    /\ servers = [s \in Ids |-> NoServer]
    /\ secrets = {CallerSecret}
    /\ tools = {}
    /\ agentTools = {}
    /\ pods = [s \in Ids |-> 0]
    /\ locks = {}
    /\ inst = [i \in AllInstalls |-> IdleInst]
    /\ disc = [i \in AllInstalls |-> IdleDisc]
    /\ rst = [r \in Restarts |-> IdleRst]
    /\ prx = [p \in Proxies |-> IdlePrx]
    /\ lgs = [l \in LogRequests |-> IdleLgs]
    /\ agentsTable = {}
    /\ teamMember = {}
    /\ agentTeamTable = {}
    /\ access = IdleAccess

\* ------------------------------------------------- server record store
\* McpServerModel.create: a new row; status and error take the column
\* defaults.  The row's secret reference is read by no handler and is left out.
Create(srv, id, catalogId) ==
    [srv EXCEPT ![id] = [exists |-> TRUE, catalogId |-> catalogId,
                         status |-> "idle", error |-> NoError]]

\* McpServerModel.update: sets the fields of the row with that id; no row, no effect
Update(srv, id, status, error) ==
    IF srv[id].exists
    THEN [srv EXCEPT ![id].status = status, ![id].error = error]
    ELSE srv

\* McpServerModel.delete: removes the row, nothing else
Delete(srv, id) == [srv EXCEPT ![id] = NoServer]

\* McpServerModel.findByCatalogId
FindByCatalogId(c) == {s \in Ids : servers[s].exists /\ servers[s].catalogId = c}

IsLocal(s) == ServerType(servers[s].catalogId) = "local"

\* ------------------------------------------------------ HTTP responses
Resp(code, type, status) == [code |-> code, type |-> type, status |-> status]
ValidationError == Resp(400, "validation_error", "none")
NotFound == Resp(404, "not_found", "none")
ApiError == Resp(500, "api_error", "none")

\* ======================= POST /api/mcp_server =======================
\* request body: catalogId, credentials (none, accessToken, secretId), agentIds.
\* Each input is drawn where the handler first reads it.
Credentials == {"none", "accessToken", "secretId"}
\* agentIds is an array: nothing keeps an agent id from occurring twice
AgentIdChoices == {<<>>, <<1>>, <<1, 1>>}

\* duplicate check, then secret creation and connection validation
AlreadyInstalled(c) == c # NoCatalog /\ FindByCatalogId(c) # {}

Install_Begin(i) ==
    /\ inst[i].pc = "idle"
    \* requests are interchangeable: number them in the order they arrive
    /\ \A j \in AllInstalls : j < i => inst[j].pc # "idle"
    /\ \E c \in Catalogs \cup {NoCatalog} :
         IF AlreadyInstalled(c)
         THEN inst' = [inst EXCEPT ![i].pc = "done", ![i].catalogId = NoCatalog, ![i].resp = ValidationError]
         ELSE inst' = [inst EXCEPT ![i].pc = "secret", ![i].catalogId = c]
    /\ UNCHANGED <<servers, secrets, tools, agentTools, pods, locks, disc, rst, prx, lgs, accessVars>>

\* variant: the handler records the caller's secret id as created by itself
Install_Secret_RecordsCallerSecret(i) ==
    /\ inst[i].pc = "secret"
    /\ \E cred \in Credentials, outcome \in {"valid", "invalid", "throws"} :
         LET created == IF cred = "accessToken" THEN {CreatedSecret(i)} ELSE {}
             secretId == IF cred = "accessToken" THEN {CreatedSecret(i)}
                         ELSE IF cred = "secretId" THEN {CallerSecret} ELSE {}
         IN  IF secretId = {} \/ outcome = "valid"
             THEN /\ outcome = "valid"
                  /\ secrets' = secrets \cup created
                  /\ inst' = [inst EXCEPT ![i].pc = "create",
                                         ![i].createdSecretId = secretId]
             ELSE IF outcome = "invalid"
             THEN /\ secrets' = secrets \ secretId
                  /\ inst' = [inst EXCEPT ![i].pc = "done", ![i].catalogId = NoCatalog,
                                         ![i].resp = ValidationError]
             ELSE /\ secrets' = secrets \cup created
                  /\ inst' = [inst EXCEPT ![i].pc = "done", ![i].catalogId = NoCatalog,
                                         ![i].createdSecretId = secretId,
                                         ![i].thrown = "validate",
                                         ![i].resp = ApiError]
    /\ UNCHANGED <<servers, tools, agentTools, pods, locks, disc, rst, prx, lgs, accessVars>>

\* SecretModel.create for an accessToken, then McpServerModel.validateConnection:
\* valid, invalid (400, the created secret is deleted again) or an exception
\* (the outer catch answers 500).  createdSecretId is set only where the
\* handler created the secret, never to the secretId of the caller.
Install_Secret(i) ==
    /\ inst[i].pc = "secret"
    /\ \E cred \in Credentials, outcome \in {"valid", "invalid", "throws"} :
         LET created == IF cred = "accessToken" THEN {CreatedSecret(i)} ELSE {}
             secretId == IF cred = "accessToken" THEN {CreatedSecret(i)}
                         ELSE IF cred = "secretId" THEN {CallerSecret} ELSE {}
         IN  IF secretId = {} \/ outcome = "valid"
             THEN /\ outcome = "valid"
                  /\ secrets' = secrets \cup created
                  /\ inst' = [inst EXCEPT ![i].pc = "create",
                                         ![i].createdSecretId = created]
             ELSE IF outcome = "invalid"
             THEN /\ secrets' = secrets
                  /\ inst' = [inst EXCEPT ![i].pc = "done", ![i].catalogId = NoCatalog,
                                         ![i].resp = ValidationError]
             ELSE /\ secrets' = secrets \cup created
                  /\ inst' = [inst EXCEPT ![i].pc = "done", ![i].catalogId = NoCatalog,
                                         ![i].createdSecretId = created,
                                         ![i].thrown = "validate",
                                         ![i].resp = ApiError]
    /\ UNCHANGED <<servers, tools, agentTools, pods, locks, disc, rst, prx, lgs, accessVars>>

\* McpServerModel.create inserts the row and then assigns the teams of the
\* request: the insert can be rejected, and the team assignment can be
\* rejected after the row is in
CreateOutcomes == {"ok", "insertFails", "teamsFail"}

\* McpServerModel.create threw: it is called outside the inner try, so only
\* the outer catch runs and answers 500
Install_CreateFailed(i, o) ==
    /\ servers' = IF o = "teamsFail" THEN Create(servers, i, inst[i].catalogId)
                  ELSE servers
    /\ inst' = [inst EXCEPT ![i].pc = "done", ![i].catalogId = NoCatalog,
                           ![i].thrown = "create", ![i].resp = ApiError]

\* variant: every install takes the local branch
Install_Create_AllLocal(i) ==
    /\ inst[i].pc = "create"
    /\ \E o \in CreateOutcomes :
         IF o = "ok"
         THEN /\ servers' = Create(servers, i, inst[i].catalogId)
              /\ inst' = [inst EXCEPT ![i].pc = "setPending"]
         ELSE Install_CreateFailed(i, o)
    /\ UNCHANGED <<secrets, tools, agentTools, pods, locks, disc, rst, prx, lgs, accessVars>>

\* McpServerModel.create, then the catalog lookup that picks the branch
Install_Create(i) ==
    /\ inst[i].pc = "create"
    /\ \E o \in CreateOutcomes :
         IF o = "ok"
         THEN /\ servers' = Create(servers, i, inst[i].catalogId)
              /\ inst' = [inst EXCEPT ![i].pc =
                            IF ServerType(inst[i].catalogId) = "local" THEN "setPending"
                            ELSE "fetch"]
         ELSE Install_CreateFailed(i, o)
    /\ UNCHANGED <<secrets, tools, agentTools, pods, locks, disc, rst, prx, lgs, accessVars>>

\* ---------------------------------------------------- pod runtime
\* McpServerRuntimeManager is not part of the sources at hand; it is modelled
\* from its contract: lifecycle operations on one id exclude each other
\* (per-id lock), startServer requires that no PodHandle is registered for
\* the id and registers one once the workload is addressable, restartServer
\* tears the current handle down and runs the start sequence again.
HasPod(s) == pods[s] > 0
\* variant: lifecycle operations do not wait for the id's lock
LockFree_Unguarded(s) == TRUE
LockFree(s) == s \notin locks
Register(p, s) == [p EXCEPT ![s] = @ + 1]
Teardown(p, s) == [p EXCEPT ![s] = 0]

\* startServer(server): ProvisionError when the workload cannot be created
\* (in particular when one is already registered under the id) or does not
\* become addressable in time
StartServerOutcomes(s) == IF HasPod(s) THEN {"fail"} ELSE {"ok", "fail"}

\* variant: the pending write is left out
Install_SetPending_Skipped(i) ==
    /\ inst[i].pc = "setPending"
    /\ inst' = [inst EXCEPT ![i].pc = "start"]
    /\ UNCHANGED <<servers, secrets, tools, agentTools, pods, locks, disc, rst, prx, lgs, accessVars>>

\* set pending before starting the pod
Install_SetPending(i) ==
    /\ inst[i].pc = "setPending"
    /\ servers' = Update(servers, i, "pending", NoError)
    /\ inst' = [inst EXCEPT ![i].pc = "start"]
    /\ UNCHANGED <<secrets, tools, agentTools, pods, locks, disc, rst, prx, lgs, accessVars>>

\* startServer succeeded: the detached task is spawned (it first sleeps) and
\* the response is sent with pending status
Install_Started(i) ==
    /\ pods' = Register(pods, i)
    /\ disc' = [disc EXCEPT ![i].pc = "sleeping"]
    /\ inst' = [inst EXCEPT ![i].pc = "done", ![i].catalogId = NoCatalog,
                           ![i].resp = Resp(200, "ok", "pending")]
    /\ UNCHANGED servers

\* variant: the catch records the error state before the rollback
Install_StartFailed_SetsError(i) ==
    /\ inst' = [inst EXCEPT ![i].pc = "podError", ![i].thrown = "start"]
    /\ servers' = Update(servers, i, "error", "pod start failed")
    /\ UNCHANGED <<pods, disc>>

\* startServer threw: control passes to the podError catch
Install_StartFailed(i) ==
    /\ inst' = [inst EXCEPT ![i].pc = "podError", ![i].thrown = "start"]
    /\ UNCHANGED <<servers, pods, disc>>

Install_StartServer(i) ==
    /\ inst[i].pc = "start"
    /\ LockFree(i)
    /\ \E o \in StartServerOutcomes(i) :
         IF o = "ok" THEN Install_Started(i) ELSE Install_StartFailed(i)
    /\ UNCHANGED <<secrets, tools, agentTools, locks, rst, prx, lgs, accessVars>>

\* catch (podError): delete the record, rethrow
Install_PodError(i) ==
    /\ inst[i].pc = "podError"
    /\ servers' = Delete(servers, i)
    /\ inst' = [inst EXCEPT ![i].pc = "cleanup"]
    /\ UNCHANGED <<secrets, tools, agentTools, pods, locks, disc, rst, prx, lgs, accessVars>>

\* variant: the cleanup forgets the secret
Install_Cleanup_KeepsSecret(i) ==
    /\ inst[i].pc = "cleanup"
    /\ servers' = Delete(servers, i)
    /\ inst' = [inst EXCEPT ![i].pc = "done", ![i].catalogId = NoCatalog, ![i].resp = ApiError]
    /\ UNCHANGED <<secrets, tools, agentTools, pods, locks, disc, rst, prx, lgs, accessVars>>

\* variant: the cleanup leaves the record in place
Install_Cleanup_KeepsRecord(i) ==
    /\ inst[i].pc = "cleanup"
    /\ secrets' = secrets \ inst[i].createdSecretId
    /\ inst' = [inst EXCEPT ![i].pc = "done", ![i].catalogId = NoCatalog, ![i].resp = ApiError]
    /\ UNCHANGED <<servers, tools, agentTools, pods, locks, disc, rst, prx, lgs, accessVars>>

\* catch (toolError): delete the record and the secret created for this
\* request, rethrow; the outer catch answers 500
Install_Cleanup(i) ==
    /\ inst[i].pc = "cleanup"
    /\ servers' = Delete(servers, i)
    /\ secrets' = secrets \ inst[i].createdSecretId
    /\ inst' = [inst EXCEPT ![i].pc = "done", ![i].catalogId = NoCatalog, ![i].resp = ApiError]
    /\ UNCHANGED <<tools, agentTools, pods, locks, disc, rst, prx, lgs, accessVars>>

\* ------------------------------------------- tool persistence loop
\* A raw tool name is a tuple of text.  McpServerModel.getToolsFromServer
\* returns the listing of the GitHub server when the record is the GitHub
\* server with a token and the connection works, and the built-in sample
\* list otherwise; it catches its own errors and never throws, and it does
\* not ask the server's pod.
SampleTools == <<<<"read_file">>, <<"list_directory">>, <<"search_files">>>>
RemoteName(k) == <<"tool", k>>
\* what the remote server lists: any number of tools, the last of which may
\* carry the raw name of the first
RemoteListings ==
    {[k \in 1..n |-> RemoteName(k)] : n \in 0..MaxTools}
    \cup {[k \in 1..n |-> RemoteName(IF k = n THEN 1 ELSE k)] : n \in 2..MaxTools}
ToolListings == {SampleTools} \cup RemoteListings
\* what the process in the pod of a local server answers to tools/list
PodTools(s) == <<<<"ping">>>>

\* the record's name; records are told apart by it
ServerName(s) == s
\* ToolModel.slugifyName: the server's name and the raw name, joined
SlugifyName(serverName, rawName) == <<serverName, rawName>>

\* ToolModel.create for the tool at position p of the listing of server s:
\* a new row under the slugified name, whether or not the run has already
\* stored a row under that name (copy numbers the rows of one name)
ToolRow(s, listing, p) ==
    [server |-> s, name |-> SlugifyName(ServerName(s), listing[p]),
     copy |-> Cardinality({q \in 1..p : listing[q] = listing[p]})]
ToolRows(s, listing, lo, hi) == {ToolRow(s, listing, p) : p \in lo..hi}

\* AgentToolModel.create(agentId, createdTool.id) for each agent id in turn:
\* a new row each time (copy numbers the rows of one agent and tool)
AssignmentRows(toolRow, agentIds) ==
    {[agent |-> agentIds[p], tool |-> toolRow,
      copy |-> Cardinality({q \in 1..p : agentIds[q] = agentIds[p]})]
       : p \in 1..Len(agentIds)}
AllAssignmentRows(s, listing, lo, hi, agentIds) ==
    UNION {AssignmentRows(ToolRow(s, listing, p), agentIds) : p \in lo..hi}

HasRepeat(agentIds) ==
    \E p, q \in 1..Len(agentIds) : p < q /\ agentIds[p] = agentIds[q]
\* the agent ids in front of the first one that repeats an earlier id
BeforeRepeat(agentIds) ==
    SubSeq(agentIds, 1,
           (CHOOSE q \in 1..Len(agentIds) :
               /\ \E p \in 1..(q - 1) : agentIds[p] = agentIds[q]
               /\ \A r \in 1..(q - 1) : ~\E p \in 1..(r - 1) : agentIds[p] = agentIds[r])
           - 1)

\* how one pass of the loop body can end: both creates succeed (a repeated
\* agent id then leaves two assignment rows), ToolModel.create throws,
\* AgentToolModel.create throws at the first agent id, or it throws at the
\* repeated agent id because the store rejects the second row
LoopOutcomes(agentIds) ==
    {"ok", "toolFails"}
    \cup (IF agentIds = <<>> THEN {} ELSE {"assignFails"})
    \cup (IF HasRepeat(agentIds) THEN {"assignDuplicate"} ELSE {})
ToolErrorMessage == "tool create failed"
AssignErrorMessage == "assignment create failed"
DuplicateErrorMessage == "duplicate assignment"
LoopErrorMessage(o) ==
    IF o = "toolFails" THEN ToolErrorMessage
    ELSE IF o = "assignFails" THEN AssignErrorMessage
    ELSE DuplicateErrorMessage

\* the rows one pass for position p adds, by its outcome
PassToolRows(s, listing, p, o) ==
    IF o = "toolFails" THEN {} ELSE {ToolRow(s, listing, p)}
PassAssignmentRows(s, listing, p, agentIds, o) ==
    IF o = "ok" THEN AssignmentRows(ToolRow(s, listing, p), agentIds)
    ELSE IF o = "assignDuplicate"
    THEN AssignmentRows(ToolRow(s, listing, p), BeforeRepeat(agentIds))
    ELSE {}

\* non-local branch: fetch the tools and persist them, synchronously
Install_FetchTools(i) ==
    /\ inst[i].pc = "fetch"
    /\ \E a \in AgentIdChoices, l \in ToolListings, k \in 0..(MaxTools + 1),
          o \in {"ok", "toolFails", "assignFails", "assignDuplicate"} :
         /\ o \in LoopOutcomes(a)
         /\ k <= Len(l)
         /\ (o = "ok") = (k = Len(l))
         \* tools 1..k are persisted whole; the pass for tool k+1 fails
         /\ tools' = tools \cup ToolRows(i, l, 1, k)
                        \cup (IF o = "ok" THEN {} ELSE PassToolRows(i, l, k + 1, o))
         /\ agentTools' = agentTools \cup AllAssignmentRows(i, l, 1, k, a)
                        \cup (IF o = "ok" THEN {}
                              ELSE PassAssignmentRows(i, l, k + 1, a, o))
         /\ inst' = IF o = "ok"
                    THEN [inst EXCEPT ![i].pc = "setSuccess", ![i].fetched = l]
                    ELSE [inst EXCEPT ![i].pc = "cleanup", ![i].thrown = "tools"]
    /\ UNCHANGED <<servers, secrets, pods, locks, disc, rst, prx, lgs, accessVars>>

\* set status to success for non-local servers, answer 200
Install_SetSuccess(i) ==
    /\ inst[i].pc = "setSuccess"
    /\ servers' = Update(servers, i, "success", NoError)
    /\ inst' = [inst EXCEPT ![i].pc = "done", ![i].catalogId = NoCatalog,
                           ![i].fetched = <<>>, ![i].resp = Resp(200, "ok", "success")]
    /\ UNCHANGED <<secrets, tools, agentTools, pods, locks, disc, rst, prx, lgs, accessVars>>

Install(i) ==
    \/ Install_Begin(i)
    \/ Install_Secret(i)
    \/ Install_Create(i)
    \/ Install_SetPending(i)
    \/ Install_StartServer(i)
    \/ Install_PodError(i)
    \/ Install_Cleanup(i)
    \/ Install_FetchTools(i)
    \/ Install_SetSuccess(i)

\* =================== detached tool-discovery task ===================
\* after the grace delay: getToolsFromServer
Disc_ListTools(i) ==
    /\ disc[i].pc = "sleeping"
    /\ \E a \in AgentIdChoices, l \in ToolListings :
         disc' = IF l = <<>>
                 THEN [disc EXCEPT ![i].pc = "setSuccess"]
                 ELSE [disc EXCEPT ![i].pc = "persist", ![i].listing = l,
                                   ![i].agentIds = a]
    /\ UNCHANGED <<servers, secrets, tools, agentTools, pods, locks, inst, rst, prx, lgs, accessVars>>

\* one pass of the loop: ToolModel.create, then AgentToolModel.create per agent
Disc_PersistTool(i) ==
    /\ disc[i].pc = "persist"
    /\ \E o \in LoopOutcomes(disc[i].agentIds) :
         LET k == disc[i].k + 1
             l == disc[i].listing
         IN
         /\ tools' = tools \cup PassToolRows(i, l, k, o)
         /\ agentTools' = agentTools \cup PassAssignmentRows(i, l, k, disc[i].agentIds, o)
         /\ disc' = IF o = "ok"
                    THEN IF k = Len(l)
                         THEN [disc EXCEPT ![i].pc = "setSuccess", ![i].listing = <<>>,
                                           ![i].k = 0, ![i].agentIds = <<>>]
                         ELSE [disc EXCEPT ![i].k = k]
                    ELSE [disc EXCEPT ![i].pc = "setError", ![i].listing = <<>>,
                                      ![i].k = 0, ![i].agentIds = <<>>,
                                      ![i].error = LoopErrorMessage(o)]
    /\ UNCHANGED <<servers, secrets, pods, locks, inst, rst, prx, lgs, accessVars>>

\* variant: the task ends without its success write
Disc_SetSuccess_Lost(i) ==
    /\ disc[i].pc = "setSuccess"
    /\ disc' = [disc EXCEPT ![i].pc = "done"]
    /\ UNCHANGED <<servers, secrets, tools, agentTools, pods, locks, inst, rst, prx, lgs, accessVars>>

\* variant: a statement after the success write throws into the catch
Disc_SetSuccess_ThenThrows(i) ==
    /\ disc[i].pc = "setSuccess"
    /\ servers' = Update(servers, i, "success", NoError)
    /\ disc' = [disc EXCEPT ![i].pc = "setError", ![i].error = "log failed"]
    /\ UNCHANGED <<secrets, tools, agentTools, pods, locks, inst, rst, prx, lgs, accessVars>>

\* set status to success after tools are fetched
Disc_SetSuccess(i) ==
    /\ disc[i].pc = "setSuccess"
    /\ servers' = Update(servers, i, "success", NoError)
    /\ disc' = [disc EXCEPT ![i].pc = "done"]
    /\ UNCHANGED <<secrets, tools, agentTools, pods, locks, inst, rst, prx, lgs, accessVars>>

\* variant: the task rolls the record back as the synchronous path does
Disc_SetError_Deletes(i) ==
    /\ disc[i].pc = "setError"
    /\ servers' = Delete(servers, i)
    /\ disc' = [disc EXCEPT ![i].pc = "done"]
    /\ UNCHANGED <<secrets, tools, agentTools, pods, locks, inst, rst, prx, lgs, accessVars>>

\* variant: the catch removes the tools the task has stored for the server
Disc_SetError_RollsBackTools(i) ==
    /\ disc[i].pc = "setError"
    /\ servers' = Update(servers, i, "error", disc[i].error)
    /\ tools' = {t \in tools : t.server # i}
    /\ disc' = [disc EXCEPT ![i].pc = "done"]
    /\ UNCHANGED <<secrets, agentTools, pods, locks, inst, rst, prx, lgs, accessVars>>

\* variant: the catch stores the message and leaves the status as it is
Disc_SetError_KeepsStatus(i) ==
    /\ disc[i].pc = "setError"
    /\ servers' = Update(servers, i, servers[i].status, disc[i].error)
    /\ disc' = [disc EXCEPT ![i].pc = "done"]
    /\ UNCHANGED <<secrets, tools, agentTools, pods, locks, inst, rst, prx, lgs, accessVars>>

\* catch (toolError): set status to error with the message
Disc_SetError(i) ==
    /\ disc[i].pc = "setError"
    /\ servers' = Update(servers, i, "error", disc[i].error)
    /\ disc' = [disc EXCEPT ![i].pc = "done"]
    /\ UNCHANGED <<secrets, tools, agentTools, pods, locks, inst, rst, prx, lgs, accessVars>>

Discovery(i) ==
    \/ Disc_ListTools(i)
    \/ Disc_PersistTool(i)
    \/ Disc_SetSuccess(i)
    \/ Disc_SetError(i)

\* =================== DELETE /api/mcp_server/:id ===================
Uninstall(s) ==
    /\ servers[s].exists
    /\ servers' = Delete(servers, s)
    /\ UNCHANGED <<secrets, tools, agentTools, pods, locks, inst, disc, rst, prx, lgs, accessVars>>

NextInstall ==
    \/ \E i \in Installs : Install(i)
    \/ \E i \in Installs : Discovery(i)
    \/ \E s \in Ids : Uninstall(s)

SpecInstall == Init /\ [][NextInstall]_vars

\* ================ POST /api/mcp_server/:id/restart ================
InFlight(r) == rst[r].pc \in {"called", "starting"}

\* the request arrives; raced records that another restart of the same id
\* was in flight at that moment
Restart_Begin(r) ==
    /\ rst[r].pc = "idle"
    /\ \A q \in Restarts : q < r => rst[q].pc # "idle"
    /\ \E s \in Ids :
         rst' = [rst EXCEPT ![r].pc = "called", ![r].id = s,
                            ![r].raced = \E q \in Restarts : InFlight(q) /\ rst[q].id = s]
    /\ UNCHANGED <<servers, secrets, tools, agentTools, pods, locks, inst, disc, prx, lgs, accessVars>>

\* An error message is the sequence of its fragments of text.
\* NotFoundError of restartServer, and what a failed start sequence reports:
\* the workload did not become addressable, or the cluster does not know the
\* image or another object the workload needs
NotFoundMessage == <<"MCP server", "not found">>
ProvisionMessages == {<<"pod did not become ready">>, <<"image", "not found">>}

\* catch of the route: error.message?.includes("not found") answers 404
\* not_found, any other error 500 api_error
Includes(message, text) == \E k \in 1..Len(message) : message[k] = text
RestartErrorResponse(message) ==
    IF Includes(message, "not found") THEN NotFound ELSE ApiError

\* restartServer, first half: NotFoundError when no record has the id;
\* otherwise take the id's lock and tear the handle down
Restart_Teardown(r) ==
    LET s == rst[r].id IN
    /\ rst[r].pc = "called"
    /\ LockFree(s)
    /\ IF servers[s].exists
       THEN /\ locks' = locks \cup {s}
            /\ pods' = Teardown(pods, s)
            /\ rst' = [rst EXCEPT ![r].pc = "starting", ![r].local = IsLocal(s)]
       ELSE /\ rst' = [rst EXCEPT ![r].pc = "done", ![r].cause = "noServer",
                                  ![r].message = NotFoundMessage,
                                  ![r].resp = RestartErrorResponse(NotFoundMessage)]
            /\ UNCHANGED <<locks, pods>>
    /\ UNCHANGED <<servers, secrets, tools, agentTools, inst, disc, prx, lgs, accessVars>>

\* restartServer, second half: the start sequence (a server without a local
\* catalog item has no image to run), then the lock is released; the route
\* answers 200, or maps the error
RestartOutcomes(r) == IF rst[r].local THEN {"ok", "fail"} ELSE {"fail"}

\* variant: a successful restart sets the record to pending and spawns the
\* discovery task again
Restart_Start_Rediscovers(r) ==
    LET s == rst[r].id IN
    /\ rst[r].pc = "starting"
    /\ \E o \in RestartOutcomes(r), m \in ProvisionMessages :
         /\ pods' = IF o = "ok" THEN Register(pods, s) ELSE pods
         /\ servers' = IF o = "ok" THEN Update(servers, s, "pending", NoError) ELSE servers
         /\ disc' = IF o = "ok" THEN [disc EXCEPT ![s] = [IdleDisc EXCEPT !.pc = "sleeping"]]
                    ELSE disc
         /\ rst' = IF o = "ok"
                    THEN [rst EXCEPT ![r].pc = "done", ![r].local = FALSE,
                                     ![r].resp = Resp(200, "ok", "none")]
                    ELSE [rst EXCEPT ![r].pc = "done", ![r].local = FALSE,
                                     ![r].cause = "provision", ![r].message = m,
                                     ![r].resp = RestartErrorResponse(m)]
    /\ locks' = locks \ {s}
    /\ UNCHANGED <<secrets, tools, agentTools, inst, prx, lgs, accessVars>>

Restart_Start(r) ==
    LET s == rst[r].id IN
    /\ rst[r].pc = "starting"
    /\ \E o \in RestartOutcomes(r), m \in ProvisionMessages :
         /\ pods' = IF o = "ok" THEN Register(pods, s) ELSE pods
         /\ rst' = IF o = "ok"
                    THEN [rst EXCEPT ![r].pc = "done", ![r].local = FALSE,
                                     ![r].resp = Resp(200, "ok", "none")]
                    ELSE [rst EXCEPT ![r].pc = "done", ![r].local = FALSE,
                                     ![r].cause = "provision", ![r].message = m,
                                     ![r].resp = RestartErrorResponse(m)]
    /\ locks' = locks \ {s}
    /\ UNCHANGED <<servers, secrets, tools, agentTools, inst, disc, prx, lgs, accessVars>>

Restart(r) ==
    \/ Restart_Begin(r)
    \/ Restart_Teardown(r)
    \/ Restart_Start(r)

\* ===================== POST /mcp_proxy/:id =====================
\* McpServerModel.findById
Proxy_Find(p) ==
    /\ prx[p].pc = "idle"
    /\ \A q \in Proxies : q < p => prx[q].pc # "idle"
    /\ \E s \in Ids :
         prx' = IF servers[s].exists
                THEN [prx EXCEPT ![p].pc = "check", ![p].id = s, ![p].found = TRUE,
                                 ![p].catalogId = servers[s].catalogId]
                ELSE [prx EXCEPT ![p].pc = "done", ![p].id = s, ![p].resp = NotFound]
    /\ UNCHANGED <<servers, secrets, tools, agentTools, pods, locks, inst, disc, rst, lgs, accessVars>>

\* variant: the handler hijacks without looking at what getPod returned
Proxy_Check_NoPodCheck(p) ==
    /\ prx[p].pc = "check"
    /\ prx' = IF ServerType(prx[p].catalogId) # "local"
              THEN [prx EXCEPT ![p].pc = "done", ![p].resp = ValidationError]
              ELSE [prx EXCEPT ![p].pc = "stream", ![p].k8sPod = HasPod(prx[p].id),
                               ![p].headersSent = TRUE,
                               ![p].resp = Resp(200, "stream", "none")]
    /\ UNCHANGED <<servers, secrets, tools, agentTools, pods, locks, inst, disc, rst, lgs, accessVars>>

\* variant: the pod is looked up before the type of the catalog item
Proxy_Check_PodFirst(p) ==
    /\ prx[p].pc = "check"
    /\ prx' = IF ~HasPod(prx[p].id)
              THEN [prx EXCEPT ![p].pc = "done", ![p].k8sPod = HasPod(prx[p].id),
                               ![p].resp = NotFound]
              ELSE IF ServerType(prx[p].catalogId) # "local"
              THEN [prx EXCEPT ![p].pc = "done", ![p].resp = ValidationError]
              ELSE [prx EXCEPT ![p].pc = "stream", ![p].k8sPod = HasPod(prx[p].id),
                               ![p].headersSent = TRUE,
                               ![p].resp = Resp(200, "stream", "none")]
    /\ UNCHANGED <<servers, secrets, tools, agentTools, pods, locks, inst, disc, rst, lgs, accessVars>>

\* catalog lookup, type check, getPod; then hijack and writeHead(200)
Proxy_Check(p) ==
    /\ prx[p].pc = "check"
    /\ prx' = IF ServerType(prx[p].catalogId) # "local"
              THEN [prx EXCEPT ![p].pc = "done", ![p].resp = ValidationError]
              ELSE IF ~HasPod(prx[p].id)
              THEN [prx EXCEPT ![p].pc = "done", ![p].k8sPod = HasPod(prx[p].id),
                               ![p].resp = NotFound]
              ELSE [prx EXCEPT ![p].pc = "stream", ![p].k8sPod = HasPod(prx[p].id),
                               ![p].headersSent = TRUE,
                               ![p].resp = Resp(200, "stream", "none")]
    /\ UNCHANGED <<servers, secrets, tools, agentTools, pods, locks, inst, disc, rst, lgs, accessVars>>

\* streamToPod resolves the handle again: NotFoundError when it is gone, else
\* it relays the exchange and ends the client channel, or throws on an I/O
\* error, before or after the first data reached the client.
StreamOutcomes(s) ==
    IF HasPod(s) THEN {"relayed", "ioErrorBeforeData", "ioErrorAfterData"}
    ELSE {"notFound"}

\* catch of the handler: the 500 reply when nothing was sent (!reply.sent),
\* else the raw 500 envelope and end when no header was written
\* (!reply.raw.headersSent), else nothing
Proxy_Catch(sent, headersSent, q) ==
    IF ~sent THEN [q EXCEPT !.resp = ApiError, !.ended = TRUE]
    ELSE IF ~headersSent THEN [q EXCEPT !.resp = ApiError, !.ended = TRUE]
    ELSE q

\* await streamToPod; the hijack made reply.sent true and writeHead(200) made
\* raw.headersSent true before the call
Proxy_Stream(p) ==
    /\ prx[p].pc = "stream"
    /\ \E o \in StreamOutcomes(prx[p].id) :
         LET q == [prx[p] EXCEPT !.pc = "done", !.stream = o] IN
         prx' = [prx EXCEPT ![p] =
                   IF o = "relayed" THEN [q EXCEPT !.ended = TRUE]
                   ELSE Proxy_Catch(TRUE, prx[p].headersSent, q)]
    /\ UNCHANGED <<servers, secrets, tools, agentTools, pods, locks, inst, disc, rst, lgs, accessVars>>

Proxy(p) ==
    \/ Proxy_Find(p)
    \/ Proxy_Check(p)
    \/ Proxy_Stream(p)

\* =================== GET /mcp_proxy/:id/logs ===================
\* getMcpServerLogs(id, lines): NotFoundError when no pod is registered for
\* the id, else the container's last lines, or a transport failure
LogOutcomes(s) == IF HasPod(s) THEN {"logs", "transportError"} ELSE {"notFound"}

\* the handler: reply.send(logs), and in its catch a 404 not_found for
\* whatever was thrown
Logs(l) ==
    /\ lgs[l].pc = "idle"
    /\ \A q \in LogRequests : q < l => lgs[q].pc # "idle"
    /\ \E s \in Ids, o \in {"logs", "transportError", "notFound"} :
         /\ o \in LogOutcomes(s)
         /\ lgs' = [lgs EXCEPT ![l] =
                      [pc |-> "done", id |-> s, outcome |-> o,
                       resp |-> IF o = "logs" THEN Resp(200, "logs", "none")
                                ELSE NotFound]]
    /\ UNCHANGED <<servers, secrets, tools, agentTools, pods, locks, inst, disc, rst, prx, accessVars>>

\* ------------------------------------------------ agent access control
\* The tables are filled by the operations that write them.  A team id
\* list is taken as a set: each (agent, team) pair is one row.
TeamIdLists == SUBSET Teams

\* AgentTeamModel.assignTeamsToAgent: insert ... onConflictDoNothing
AssignTeamsToAgentRows(agentId, teamIds) ==
    agentTeamTable \cup {[agentId |-> agentId, teamId |-> t] : t \in teamIds}

\* AgentTeamModel.syncAgentTeams: one transaction that deletes the
\* agent's rows and inserts the given ones
SyncAgentTeamsRows(agentId, teamIds) ==
    {r \in agentTeamTable : r.agentId # agentId}
        \cup {[agentId |-> agentId, teamId |-> t] : t \in teamIds}

\* AgentTeamModel.removeTeamFromAgent
RemoveTeamFromAgentRows(agentId, teamId) ==
    agentTeamTable \ {[agentId |-> agentId, teamId |-> teamId]}

\* AgentModel.create({ name, teams })
CreateAgent(a, teamIds) ==
    /\ a \notin agentsTable
    /\ agentsTable' = agentsTable \cup {a}
    /\ agentTeamTable' = AssignTeamsToAgentRows(a, teamIds)
    /\ access' = IdleAccess
    /\ UNCHANGED <<teamMember, serverVars>>

\* TeamModel.addMember(teamId, userId)
AddMember(t, u) ==
    /\ [userId |-> u, teamId |-> t] \notin teamMember
    /\ teamMember' = teamMember \cup {[userId |-> u, teamId |-> t]}
    /\ access' = IdleAccess
    /\ UNCHANGED <<agentsTable, agentTeamTable, serverVars>>

\* AgentModel.update(id, { teams }) syncs the team assignments
SyncAgentTeams(a, teamIds) ==
    /\ a \in agentsTable
    /\ SyncAgentTeamsRows(a, teamIds) # agentTeamTable
    /\ agentTeamTable' = SyncAgentTeamsRows(a, teamIds)
    /\ access' = IdleAccess
    /\ UNCHANGED <<agentsTable, teamMember, serverVars>>

RemoveTeamFromAgent(a, t) ==
    /\ [agentId |-> a, teamId |-> t] \in agentTeamTable
    /\ agentTeamTable' = RemoveTeamFromAgentRows(a, t)
    /\ access' = IdleAccess
    /\ UNCHANGED <<agentsTable, teamMember, serverVars>>

\* select teamId from teamMember where userId = ...
UserTeamIds_AnyUser(userId) == {m.teamId : m \in teamMember}

UserTeamIds(userId) ==
    {m.teamId : m \in {x \in teamMember : x.userId = userId}}

\* The returned array has one entry per selected row; it is kept as
\* agent id -> number of entries.
GetUserAccessibleAgentIds(userId, isAdmin) ==
    IF isAdmin
    THEN [a \in agentsTable |-> 1]
    ELSE LET teamIds == UserTeamIds(userId)
         IN  IF teamIds = {}
             THEN NoIds
             ELSE LET rows == {r \in agentTeamTable : r.teamId \in teamIds}
                  IN  [a \in {r.agentId : r \in rows} |->
                          Cardinality({r \in rows : r.agentId = a})]

UserHasAgentAccess(userId, agentId, isAdmin) ==
    IF isAdmin
    THEN TRUE
    ELSE LET teamIds == UserTeamIds(userId)
         IN  IF teamIds = {}
             THEN FALSE
             ELSE {r \in agentTeamTable :
                      r.agentId = agentId /\ r.teamId \in teamIds} # {}

CallGetUserAccessibleAgentIds(u, isAdmin) ==
    /\ access' = [IdleAccess EXCEPT !.op = "getUserAccessibleAgentIds",
                      !.userId = u, !.isAdmin = isAdmin,
                      !.ids = GetUserAccessibleAgentIds(u, isAdmin)]
    /\ UNCHANGED <<agentsTable, teamMember, agentTeamTable, serverVars>>

CallUserHasAgentAccess(u, a, isAdmin) ==
    /\ access' = [IdleAccess EXCEPT !.op = "userHasAgentAccess",
                      !.userId = u, !.isAdmin = isAdmin, !.agentId = a,
                      !.has = UserHasAgentAccess(u, a, isAdmin)]
    /\ UNCHANGED <<agentsTable, teamMember, agentTeamTable, serverVars>>

Access ==
    \/ \E a \in Agents, teamIds \in TeamIdLists : CreateAgent(a, teamIds)
    \/ \E t \in Teams, u \in Users : AddMember(t, u)
    \/ \E a \in Agents, teamIds \in TeamIdLists : SyncAgentTeams(a, teamIds)
    \/ \E a \in Agents, t \in Teams : RemoveTeamFromAgent(a, t)
    \/ \E u \in Users, isAdmin \in BOOLEAN :
           CallGetUserAccessibleAgentIds(u, isAdmin)
    \/ \E u \in Users, a \in Agents, isAdmin \in BOOLEAN :
           CallUserHasAgentAccess(u, a, isAdmin)

\* ========================= specifications =========================
\* the whole system
Next ==
    \/ \E i \in Installs : Install(i)
    \/ \E i \in Installs : Discovery(i)
    \/ \E s \in Ids : Uninstall(s)
    \/ \E r \in Restarts : Restart(r)
    \/ \E p \in Proxies : Proxy(p)
    \/ \E l \in LogRequests : Logs(l)
    \/ Access

Spec == Init /\ [][Next]_vars

\* the detached task is an async function on the event loop: its timer
\* fires and its database calls return, so each of its steps is taken
FairInstall == SpecInstall /\ \A i \in Installs : WF_vars(Discovery(i))

\* Restart and proxy neither read nor write what the discovery task writes
\* (tools, assignments, status), and the task touches no pod; restart and
\* proxy requests meet only in the pod registry.  The specifications of the
\* pod operations leave the task unscheduled.
NextRestart ==
    \/ \E i \in Installs : Install(i)
    \/ \E s \in Ids : Uninstall(s)
    \/ \E r \in Restarts : Restart(r)

SpecRestart == Init /\ [][NextRestart]_vars

NextProxy ==
    \/ \E i \in Installs : Install(i)
    \/ \E s \in Ids : Uninstall(s)
    \/ \E p \in Proxies : Proxy(p)

SpecProxy == Init /\ [][NextProxy]_vars

\* proxy requests while restarts tear the pod of the server down
NextProxyRestart ==
    \/ \E i \in Installs : Install(i)
    \/ \E s \in Ids : Uninstall(s)
    \/ \E r \in Restarts : Restart(r)
    \/ \E p \in Proxies : Proxy(p)

SpecProxyRestart == Init /\ [][NextProxyRestart]_vars

\* install, discovery and restart together: what a restart does to the
\* tools and the installation state that install and discovery wrote
NextLifecycle ==
    \/ \E i \in Installs : Install(i)
    \/ \E i \in Installs : Discovery(i)
    \/ \E s \in Ids : Uninstall(s)
    \/ \E r \in Restarts : Restart(r)

SpecLifecycle == Init /\ [][NextLifecycle]_vars

\* every request of the scenario arrives and is served to its end, and the
\* detached task runs: handlers and the task are callbacks of one event loop
FairLifecycle ==
    /\ SpecLifecycle
    /\ \A i \in Installs : WF_vars(Install(i)) /\ WF_vars(Discovery(i))
    /\ \A r \in Restarts : WF_vars(Restart(r))

\* install requests alone, several of them in flight together
NextConcurrentInstalls == \E i \in AllInstalls : Install(i)

SpecConcurrentInstalls == Init /\ [][NextConcurrentInstalls]_vars

\* log requests read the pod registry only
NextLogs ==
    \/ \E i \in Installs : Install(i)
    \/ \E s \in Ids : Uninstall(s)
    \/ \E l \in LogRequests : Logs(l)

SpecLogs == Init /\ [][NextLogs]_vars

\* the access checks read the agent and team tables only
NextAccess == Access

SpecAccess == Init /\ [][NextAccess]_vars

\* ============================= claims =============================
TaskSpawned(i) == disc[i].pc # "none"
Terminal == {"success", "error"}

\* C1: when a local install whose startServer succeeded returns (the task is
\* spawned and has not run yet), the response body reports pending and the
\* persisted record has status pending and a null error.
C1_PendingWhenInstallReturns ==
    \A i \in Installs :
        (inst[i].pc = "done" /\ disc[i].pc = "sleeping") =>
            /\ inst[i].resp = Resp(200, "ok", "pending")
            /\ servers[i].exists =>
                 (servers[i].status = "pending" /\ servers[i].error = NoError)

C1_Witness ==
    \E i \in Installs :
        /\ inst[i].pc = "done" /\ disc[i].pc = "sleeping"
        /\ servers[i].exists /\ servers[i].status = "pending"

\* C2: under fair scheduling of the detached task, every local install whose
\* startServer succeeded has its record, unless deleted, leave pending for
\* success or error.
C2_EventuallyTerminal ==
    \A i \in Installs :
        (disc[i].pc = "sleeping") ~>
            (~servers[i].exists \/ servers[i].status \in Terminal)

C2_Witness ==
    \E i \in Installs :
        disc[i].pc = "done" /\ servers[i].exists /\ servers[i].status \in Terminal

\* C3: once an install whose startServer failed has returned, its record and
\* the secret it created do not exist and the response is an error.
C3_RollbackOnStartFailure ==
    \A i \in Installs :
        (inst[i].pc = "done" /\ inst[i].thrown = "start") =>
            /\ ~servers[i].exists
            /\ inst[i].createdSecretId \cap secrets = {}
            /\ inst[i].resp = ApiError

C3_Witness ==
    \E i \in Installs :
        /\ inst[i].pc = "done" /\ inst[i].thrown = "start"
        /\ inst[i].createdSecretId # {}

\* C4 as stated: a proxy request that completes while the record of its
\* server exists and no pod is registered for it is answered 404 not_found.
C4_NoPodAlways404 ==
    [][\A p \in Proxies :
          (/\ prx[p].pc # "done" /\ prx'[p].pc = "done"
           /\ servers[prx'[p].id].exists /\ ~HasPod(prx'[p].id))
          => prx'[p].resp = NotFound]_vars

\* C4 amended: when the record was found, its catalog item is local and getPod
\* returned no handle, the request ends with 404 not_found and nothing was
\* hijacked; when the catalog item is not local it ends with 400.
C4_LocalNoPod404 ==
    \A p \in Proxies :
        (prx[p].found /\ prx[p].pc \notin {"idle", "check"}) =>
            IF ServerType(prx[p].catalogId) # "local"
            THEN prx[p].pc = "done" /\ prx[p].resp = ValidationError
            ELSE ~prx[p].k8sPod =>
                   /\ prx[p].pc = "done" /\ prx[p].resp = NotFound
                   /\ ~prx[p].headersSent

C4_Witness ==
    \E p \in Proxies :
        /\ prx[p].pc = "done" /\ prx[p].found
        /\ ServerType(prx[p].catalogId) = "local"
        /\ ~prx[p].k8sPod /\ prx[p].resp = NotFound

\* C5: every registered pod belongs to an existing McpServer record.
C5_PodsBelongToRecords ==
    \A s \in Ids : HasPod(s) => servers[s].exists

C8_ErrorBeforeRollback ==
    \A i \in Installs :
        (inst[i].pc = "podError" /\ servers[i].exists) => servers[i].status = "error"

\* C8 amended: when startServer fails the handler deletes the record as it
\* is, with status pending and a null error; it never writes error.
C8_RollbackFromPending ==
    \A i \in Installs :
        /\ (inst[i].pc = "podError" /\ servers[i].exists) =>
              (servers[i].status = "pending" /\ servers[i].error = NoError)
        /\ (inst[i].thrown = "start" /\ inst[i].pc # "podError") => ~servers[i].exists

C8_Witness ==
    \E i \in Installs : inst[i].pc = "podError" /\ servers[i].exists

RestartsOf(s) == {r \in Restarts : rst[r].pc # "idle" /\ rst[r].id = s}
AllRestarted(s) ==
    /\ Cardinality(RestartsOf(s)) >= 2
    /\ \A r \in RestartsOf(s) : rst[r].pc = "done" /\ rst[r].resp.code = 200

C10_OnePodAfterRestarts ==
    \A s \in Ids :
        /\ pods[s] <= 1
        /\ AllRestarted(s) => pods[s] = 1

C10_Witness ==
    \E s \in Ids :
        /\ AllRestarted(s)
        /\ \E r \in RestartsOf(s) : rst[r].raced

\* C11: when streamToPod has failed, the handler has closed the client
\* channel, and if no data had been relayed the client was given the
\* api_error envelope.
StreamFailed(p) == prx[p].pc = "done" /\ prx[p].stream \notin {"none", "relayed"}

C11_StreamFailureClosesChannel ==
    \A p \in Proxies :
        StreamFailed(p) =>
            /\ prx[p].ended
            /\ prx[p].stream # "ioErrorAfterData" => prx[p].resp = ApiError

\* C12: a log request is answered 404 not_found exactly when getMcpServerLogs
\* found no pod registered for the id, and 500 when a pod is registered and
\* fetching its logs failed in transport.
C12_LogsNotFoundOnlyWithoutPod ==
    \A l \in LogRequests :
        lgs[l].pc = "done" =>
            /\ (lgs[l].resp = NotFound) = (lgs[l].outcome = "notFound")
            /\ lgs[l].outcome = "transportError" => lgs[l].resp = ApiError

\* C13: a restart request is answered 404 not_found if and only if
\* restartServer failed because no record has the id, 500 api_error for
\* every other failure, and 200 when restartServer succeeded.
C13_Restart404OnlyForMissingServer ==
    \A r \in Restarts :
        rst[r].pc = "done" =>
            /\ (rst[r].resp = NotFound) = (rst[r].cause = "noServer")
            /\ rst[r].cause = "provision" => rst[r].resp = ApiError
            /\ rst[r].cause = "none" => rst[r].resp = Resp(200, "ok", "none")

\* C14: a step of a restart request, whether the restart succeeds or fails,
\* changes no persisted tool, no agent-tool assignment, no record's
\* installation status or error, and spawns no discovery task.
C14_RestartLeavesToolsAndStatus ==
    [][(rst' # rst) =>
          /\ tools' = tools
          /\ agentTools' = agentTools
          /\ \A s \in Ids : /\ servers'[s].status = servers[s].status
                             /\ servers'[s].error = servers[s].error
          /\ disc' = disc]_vars

C14_Witness ==
    \E r \in Restarts :
        LET s == rst[r].id IN
        /\ rst[r].pc = "done" /\ rst[r].resp.code = 200
        /\ servers[s].exists /\ servers[s].status = "success"
        /\ disc[s].pc = "done"
        /\ \E t \in tools : t.server = s

\* C15: the assignments a discovery run creates are one per agent id and
\* created tool: no second row for a pair exists, and no run fails because a
\* pair was already assigned.
C15_AssignmentsIdempotent ==
    \A i \in Installs :
        TaskSpawned(i) =>
            /\ \A r \in agentTools : r.tool.server = i => r.copy = 1
            /\ disc[i].error # DuplicateErrorMessage

\* C16: the tools a discovery run persists for its server carry pairwise
\* distinct names.
C16_ToolNamesDistinct ==
    \A t1 \in tools : \A t2 \in tools :
        (TaskSpawned(t1.server) /\ t1.server = t2.server /\ t1 # t2) =>
            t1.name # t2.name

\* C17: when the discovery run of a local server has succeeded, the tools
\* persisted for the server are exactly one per tool its pod reports, named
\* from the server's name and the reported name, and the record, if it still
\* exists, has status success.
C17_ToolsAreThePodsTools ==
    \A i \in Installs :
        (disc[i].pc = "done" /\ disc[i].error = NoError) =>
            /\ {t \in tools : t.server = i}
                 = ToolRows(i, PodTools(i), 1, Len(PodTools(i)))
            /\ servers[i].exists => servers[i].status = "success"

\* C18: whatever the interleaving of install requests, at most one record
\* exists per catalogId, and a request that found its catalogId installed
\* was answered 400 validation_error.
C18_OneRecordPerCatalogId ==
    \A c \in Catalogs : Cardinality(FindByCatalogId(c)) <= 1

\* C19: when an install request has ended with an error response (400 or
\* 500), the secret the handler created for it does not exist.
C19_NoSecretLeftAfterError ==
    \A i \in AllInstalls :
        (inst[i].pc = "done" /\ inst[i].resp.code \in {400, 500}) =>
            inst[i].createdSecretId \cap secrets = {}

Accessible(u) ==
    {a \in agentsTable :
        \E t \in Teams : /\ [userId |-> u, teamId |-> t] \in teamMember
                         /\ [agentId |-> a, teamId |-> t] \in agentTeamTable}

\* C21: the agent ids returned to a non-admin user are exactly the agents
\* assigned to at least one team the user is a member of, and the access
\* check of one agent answers the same question; an admin is returned
\* every agent and is granted every agent.
C21_VisibilityFollowsTeams ==
    /\ access.op = "getUserAccessibleAgentIds" =>
           DOMAIN access.ids = IF access.isAdmin THEN agentsTable
                               ELSE Accessible(access.userId)
    /\ access.op = "userHasAgentAccess" =>
           access.has = (access.isAdmin \/ access.agentId \in Accessible(access.userId))

\* a member of one team only asks while another user's team has an agent
\* and an agent has no team: one agent is returned
C21_Witness ==
    /\ access.op = "getUserAccessibleAgentIds"
    /\ ~access.isAdmin
    /\ Cardinality(DOMAIN access.ids) = 1
    /\ Cardinality(agentsTable) > 1
    /\ \E u \in Users : u # access.userId /\ UserTeamIds(u) # {}
                          /\ UserTeamIds(u) # UserTeamIds(access.userId)
StatusSteps == {<<"idle", "pending">>, <<"pending", "success">>, <<"pending", "error">>}

C23_TerminalIsFinal ==
    [][\A s \in Ids :
          (servers[s].exists /\ servers[s].status \in Terminal /\ servers'[s].exists)
              => servers'[s].status = servers[s].status]_vars
C25_FailureHandlerFrame ==
    [][\A i \in Installs :
          (disc[i].pc = "setError" /\ disc'[i].pc # "setError") =>
              /\ tools' = tools
              /\ agentTools' = agentTools
              /\ secrets' = secrets
              /\ pods' = pods
              /\ \A s \in Ids : /\ servers'[s].exists = servers[s].exists
                                /\ servers'[s].catalogId = servers[s].catalogId
                                /\ s # i => servers'[s] = servers[s]
              /\ servers[i].exists =>
                    (servers'[i].status = "error" /\ servers'[i].error = disc[i].error)]_vars

\* a run that failed at its second tool: the first tool and its assignment
\* are stored, the record has status error
C25_Witness ==
    \E i \in Installs :
        /\ disc[i].pc = "done" /\ disc[i].error # NoError
        /\ servers[i].exists /\ servers[i].status = "error"
        /\ \E t \in tools : t.server = i /\ \E a \in agentTools : a.tool = t
\* C26: the proxy handler hijacks the response and calls streamToPod only
\* after three checks, in this order: the record exists (else 404
\* not_found), its catalog item is local (else 400 validation_error), getPod
\* returned a handle (else 404 not_found).  A request that failed a check
\* has its JSON error reply, was not hijacked and reached no pod.
C26_HijackAfterThreeChecks ==
    \A p \in Proxies :
        /\ (prx[p].headersSent \/ prx[p].stream # "none") =>
               /\ prx[p].found
               /\ ServerType(prx[p].catalogId) = "local"
               /\ prx[p].k8sPod
        /\ prx[p].pc = "done" =>
               IF ~prx[p].found
               THEN prx[p].resp = NotFound /\ ~prx[p].headersSent /\ prx[p].stream = "none"
               ELSE IF ServerType(prx[p].catalogId) # "local"
               THEN /\ prx[p].resp = ValidationError
                    /\ ~prx[p].headersSent /\ prx[p].stream = "none"
               ELSE IF ~prx[p].k8sPod
               THEN prx[p].resp = NotFound /\ ~prx[p].headersSent /\ prx[p].stream = "none"
               ELSE prx[p].headersSent /\ prx[p].stream # "none"

C26_Witness ==
    \E p \in Proxies :
        /\ prx[p].pc = "done" /\ prx[p].stream = "relayed"
        /\ prx[p].found /\ prx[p].k8sPod /\ prx[p].headersSent
\* the client channel of a proxy request is closed: a reply was sent whole
\* through the framework, or the raw response was ended
ChannelClosed(p) ==
    \/ prx[p].ended
    \/ prx[p].resp # NoResp /\ ~prx[p].headersSent

\* C27: once the handler of a proxy request has returned, the client channel
\* of the request is closed, also when streamToPod threw after the hijack
\* and the 200 header.
C27_ChannelClosedWhenHandlerReturns ==
    \A p \in Proxies : prx[p].pc = "done" => ChannelClosed(p)
\* C28: a proxy request whose pod handle was removed between the getPod check
\* and streamToPod's own lookup is answered not-found, and the client holds
\* no committed 200 for an exchange that reached no pod.
C28_LostPodAnsweredNotFound ==
    \A p \in Proxies :
        (prx[p].pc = "done" /\ prx[p].stream = "notFound") =>
            /\ prx[p].resp = NotFound
            /\ ~prx[p].headersSent
\* C29: no step of the install handler deletes a secret the caller supplied:
\* the handler never records the caller's secret id as created by itself, a
\* secret that leaves the store is one a handler recorded as created, and the
\* caller's secret stays stored on every path.
C29_CallerSecretNeverDeleted ==
    [][/\ \A i \in Installs : CallerSecret \notin inst'[i].createdSecretId
       /\ \A x \in secrets \ secrets' :
              \E i \in Installs : x \in inst[i].createdSecretId
       /\ CallerSecret \in secrets => CallerSecret \in secrets']_vars

\* an install that created no secret of its own (the caller named a secret,
\* or none) failed after its record was created and was rolled back
C29_Witness ==
    \E i \in Installs :
        /\ inst[i].pc = "done" /\ inst[i].thrown \in {"start", "tools"}
        /\ inst[i].createdSecretId = {}
        /\ ~servers[i].exists
        /\ CallerSecret \in secrets
====
